---- MODULE Spec2Model ----
(***************************************************************************)
(* Model of the LcdDriver class (Nokia 5110, 84x48 pixels, 6 pages of 8    *)
(* rows): the page-addressed frame buffer, the row-span resolver           *)
(* find_affected_rows, the bit shifter shift_data, the compositor          *)
(* write_to_buffer, the flush refresh_screen and the byte-level transport. *)
(* Arrays are functions over 0..n-1, bytes are integers 0..255.            *)
(***************************************************************************)
EXTENDS Integers, Sequences, FiniteSets, TLC

VARIABLES buffer, inverttext, cursor_x, cursor_y, wire, overrun, last, calls

vars == <<buffer, inverttext, cursor_x, cursor_y, wire, overrun, last, calls>>

(***************************************************************************)
(* Program constants.                                                      *)
(***************************************************************************)
LCD_COMMAND == 0
LCD_DATA == 1
LCD_WIDTH == 84
LCD_HEIGHT == 48
LCD_SIZE == (LCD_WIDTH * LCD_HEIGHT) \div 8
LCD_SETYADDR == 64
LCD_SETXADDR == 128
LCD_PAGES == 6
SPACE == 32
TILDE == 126

(***************************************************************************)
(* Bounds of the model.                                                    *)
(***************************************************************************)
MaxCalls == 3

\* Calls per behaviour of the pixel and line operations.
MaxDraws == 2

(***************************************************************************)
(* uint8_t arithmetic.                                                     *)
(***************************************************************************)
Bit(n, i) == (n \div (2 ^ i)) % 2

\* a & b for bytes, bit by bit; tabulated once for all pairs of bytes.
AndBits(a, b) ==
    LET t(i) == Bit(a, i) * Bit(b, i) * (2 ^ i)
    IN  t(0) + t(1) + t(2) + t(3) + t(4) + t(5) + t(6) + t(7)

AndTable == [a \in 0..255 |-> [b \in 0..255 |-> AndBits(a, b)]]

BitAnd(a, b) == AndTable[a][b]

BitOr(a, b) == a + b - BitAnd(a, b)

Not8(d) == 255 - d

Shl8(d, s) == (d * (2 ^ s)) % 256

Shr8(d, s) == d \div (2 ^ s)

MaskOf(S) ==
    LET t(i) == IF i \in S THEN 2 ^ i ELSE 0
    IN  t(0) + t(1) + t(2) + t(3) + t(4) + t(5) + t(6) + t(7)

(***************************************************************************)
(* count_bits: the number of set bits among bits 0..7.                     *)
(***************************************************************************)
count_bits(n) == Cardinality({i \in 0..7 : Bit(n, i) = 1})

(***************************************************************************)
(* find_affected_rows: the first loop visits i = 0, 8, .., 40 (page p =    *)
(* i/8) and marks the start row and the "end row"; the second loop marks   *)
(* the pages strictly between; the result is stored in a uint8_t, so bits  *)
(* above 7 are lost.                                                       *)
(***************************************************************************)
\* Mutant of StartRow: the page after the one holding row y is taken.
StartRowNext(y, p) == y < 8 * p /\ y >= 8 * p - 8

StartRow(y, p) == y < 8 * p + 8 /\ y >= 8 * p

EndRow(y, char_height, p) ==
    (y + char_height - 1) < 8 * p + 8 /\ (y + char_height) >= 8 * p

find_affected_rows(y, char_height) ==
    MaskOf({p \in 0..((LCD_HEIGHT - 1) \div 8) :
               StartRow(y, p) \/ EndRow(y, char_height, p)}
           \cup {i \in 0..7 : i >= (y \div 8) + 1
                              /\ i < (y + char_height - 1) \div 8})

(***************************************************************************)
(* Reads of a glyph array.  A read past the end of the array is undefined  *)
(* behaviour: it yields whatever byte follows the glyph in memory, which   *)
(* the caller of the model supplies as junk.                               *)
(***************************************************************************)
DataAt(data, idx, junk) == IF idx >= 0 /\ idx < Len(data) THEN data[idx + 1] ELSE junk

(***************************************************************************)
(* shift_data.  new_data is zero-initialised by the callers.               *)
(*   shift_value = 0 : new_data[i + j*w] = data[i + j*w]                   *)
(*   bit_count # 1   : for i < w, for j = bit_count-1 down to 1            *)
(*                       new_data[i + j*w]     |= data[i + (j-1)*w] >> (8-s)*)
(*                       new_data[i + (j-1)*w] |= data[i + (j-1)*w] << s   *)
(*   otherwise       : new_data[i] = data[i] >> s                          *)
(***************************************************************************)
\* Mutant of ShiftCopy: the source index is off by one.
ShiftCopyNext(data, k, junk) == DataAt(data, k + 1, junk)

ShiftCopy(data, k, junk) == DataAt(data, k, junk)

\* Mutant of ShiftCarry: the carry is shifted by shift_value, not 8 - shift_value.
ShiftCarryByShift(src, s) == Shr8(src, s)

ShiftCarry(src, s) == Shr8(src, 8 - s)

ShiftKeep(src, s) == Shl8(src, s)

\* Mutant of ShiftSingle: the byte is shifted toward bit 7.
ShiftSingleLeft(src, s) == Shl8(src, s)

ShiftSingle(src, s) == Shr8(src, s)

ShiftStep(nd, data, w, s, i, j, junk) ==
    LET src == DataAt(data, i + (j - 1) * w, junk)
        a   == [nd EXCEPT ![i + j * w + 1] = BitOr(@, ShiftCarry(src, s))]
    IN  [a EXCEPT ![i + (j - 1) * w + 1] = BitOr(@, ShiftKeep(src, s))]

RECURSIVE ShiftLoop(_, _, _, _, _, _, _)
ShiftLoop(nd, data, w, s, bit_count, n, junk) ==
    IF n >= w * (bit_count - 1)
    THEN nd
    ELSE ShiftLoop(ShiftStep(nd, data, w, s,
                             n \div (bit_count - 1),
                             (bit_count - 1) - (n % (bit_count - 1)), junk),
                   data, w, s, bit_count, n + 1, junk)

shift_data(data, char_width, shift_value, bit_count, junk) ==
    IF shift_value = 0
    THEN [k \in 1..(char_width * bit_count) |-> ShiftCopy(data, k - 1, junk)]
    ELSE IF bit_count # 1
    THEN ShiftLoop([k \in 1..(char_width * bit_count) |-> 0],
                   data, char_width, shift_value, bit_count, 0, junk)
    ELSE [k \in 1..char_width |-> ShiftSingle(DataAt(data, k - 1, junk), shift_value)]

(***************************************************************************)
(* write_to_buffer.  The merge of one cell is two independent if           *)
(* statements: "if (inverttext && char_mode) |= ~d" and then               *)
(* "if (inverttext && !char_mode) &= ~d else |= d".                        *)
(***************************************************************************)
MergeFirst(old, d, inv, char_mode) ==
    IF inv /\ char_mode THEN BitOr(old, Not8(d)) ELSE old

\* Mutant of MergeSecond: the complement of the data byte is forgotten.
MergeSecondPlainAnd(old, d, inv, char_mode) ==
    IF inv /\ ~char_mode THEN BitAnd(old, d) ELSE BitOr(old, d)

\* Mutant of MergeSecond: the data byte is merged with exclusive or.
MergeSecondXor(old, d, inv, char_mode) ==
    IF inv /\ ~char_mode THEN BitAnd(old, Not8(d)) ELSE BitOr(old, d) - BitAnd(old, d)

MergeSecond(old, d, inv, char_mode) ==
    IF inv /\ ~char_mode THEN BitAnd(old, Not8(d)) ELSE BitOr(old, d)

MergeByte(old, d, inv, char_mode) ==
    MergeSecond(MergeFirst(old, d, inv, char_mode), d, inv, char_mode)

\* The inner scan "for j = 7 down to 0": the highest set bit, or 0 if none.
HighestRow(affected_rows) ==
    IF \E j \in 0..7 : Bit(affected_rows, j) = 1
    THEN CHOOSE j \in 0..7 : Bit(affected_rows, j) = 1
                             /\ \A k \in (j + 1)..7 : Bit(affected_rows, k) = 0
    ELSE 0

ResetRow(affected_rows) ==
    IF \E j \in 0..7 : Bit(affected_rows, j) = 1
    THEN affected_rows - 2 ^ HighestRow(affected_rows)
    ELSE affected_rows

\* The buffer index of column j of a row.
CellIndex(x, row, j) == x + (row * LCD_WIDTH) + j

\* The column loop "for j < char_width": each cell of the row is merged with
\* its byte of new_data row new_data_row.  A cell outside buffer[0..LCD_SIZE-1]
\* is not part of the buffer; RowOverruns records it.
RECURSIVE WriteRow(_, _, _, _, _, _, _, _, _, _)
WriteRow(buf, x, row, new_data, char_width, new_data_row, j, inv, char_mode, junk) ==
    IF j >= char_width
    THEN buf
    ELSE WriteRow(IF CellIndex(x, row, j) >= 0 /\ CellIndex(x, row, j) < LCD_SIZE
                  THEN [buf EXCEPT ![CellIndex(x, row, j) + 1] =
                            MergeByte(@, DataAt(new_data, j + new_data_row * char_width, junk),
                                      inv, char_mode)]
                  ELSE buf,
                  x, row, new_data, char_width, new_data_row, j + 1, inv, char_mode, junk)

\* A cell of the row lies outside buffer[0 .. LCD_SIZE-1].
RowOverruns(x, row, char_width) ==
    \E j \in 0..(char_width - 1) :
        CellIndex(x, row, j) < 0 \/ CellIndex(x, row, j) >= LCD_SIZE

RECURSIVE WriteRows(_, _, _, _, _, _, _, _, _, _)
WriteRows(st, x, affected_rows, new_data, char_width, bit_count, i, inv, char_mode, junk) ==
    IF i >= bit_count
    THEN st
    ELSE WriteRows([buf  |-> WriteRow(st.buf, x, HighestRow(affected_rows), new_data,
                                      char_width, (bit_count - 1) - i, 0, inv, char_mode, junk),
                    over |-> st.over \/ RowOverruns(x, HighestRow(affected_rows), char_width)],
                   x, ResetRow(affected_rows), new_data, char_width, bit_count, i + 1,
                   inv, char_mode, junk)

write_to_buffer(buf, x, affected_rows, new_data, char_width, bit_count, inv, char_mode, junk) ==
    WriteRows([buf |-> buf, over |-> FALSE], x, affected_rows, new_data, char_width,
              bit_count, 0, inv, char_mode, junk)

(***************************************************************************)
(* The transport.  The bytes a call sends are recorded as two sequences of *)
(* equal length: the bytes, and for each byte the mode it was sent in.     *)
(* write(data, mode) sends one byte if mode is LCD_COMMAND or LCD_DATA.    *)
(***************************************************************************)
NoBytes == [bytes |-> <<>>, modes |-> <<>>]

Cat(a, b) == [bytes |-> a.bytes \o b.bytes, modes |-> a.modes \o b.modes]

Write(data, mode) ==
    IF mode = LCD_COMMAND \/ mode = LCD_DATA
    THEN [bytes |-> <<data % 256>>, modes |-> <<mode>>]
    ELSE NoBytes

\* setXY(x, y): the Y address command, then the X address command.
SetXYBytes(x, y) ==
    Cat(Write(BitOr(LCD_SETYADDR, y % 256), LCD_COMMAND),
        Write(BitOr(LCD_SETXADDR, x % 256), LCD_COMMAND))

AllData == [n \in 1..LCD_SIZE |-> LCD_DATA]

ZeroBuffer == [n \in 1..LCD_SIZE |-> 0]

\* Mutant of RefreshData: the loops are nested column-major.
RefreshDataColumnMajor(buf) ==
    [bytes |-> [n \in 1..LCD_SIZE |->
                   buf[((n - 1) % LCD_PAGES) * LCD_WIDTH + ((n - 1) \div LCD_PAGES) + 1]],
     modes |-> AllData]

\* The data loop of refresh_screen, "for i < 6, for j < LCD_WIDTH":
\* buffer[i*LCD_WIDTH + j], i.e. buffer[0], buffer[1], .. in this order.
RefreshData(buf) ==
    [bytes |-> SubSeq(buf, 1, LCD_PAGES * LCD_WIDTH),
     modes |-> SubSeq(AllData, 1, LCD_PAGES * LCD_WIDTH)]

\* Mutant of RefreshBytes: the address is not reset before the data.
RefreshBytesNoAddress(buf) == RefreshData(buf)

\* refresh_screen: setXY(LCD_SETXADDR, LCD_SETYADDR), then the data loop.
RefreshBytes(buf) == Cat(SetXYBytes(LCD_SETXADDR, LCD_SETYADDR), RefreshData(buf))

(***************************************************************************)
(* Glyphs handed to put_char_xy (custom_char: data, char_width,            *)
(* char_height; data holds char_width bytes per native page-row, padding   *)
(* bits above row char_height-1 are zero).                                 *)
(***************************************************************************)
Block8 == [char_width |-> 5, char_height |-> 8, data |-> <<255, 255, 255, 255, 255>>]

Mixed8 == [char_width |-> 2, char_height |-> 8, data |-> <<129, 60>>]

Small3 == [char_width |-> 2, char_height |-> 3, data |-> <<5, 7>>]

Dot1 == [char_width |-> 1, char_height |-> 1, data |-> <<1>>]

Tall12 == [char_width |-> 1, char_height |-> 12, data |-> <<255, 15>>]

Tall16 == [char_width |-> 2, char_height |-> 16, data |-> <<165, 15, 60, 129>>]

NoGlyph == [char_width |-> 0, char_height |-> 0, data |-> <<>>]

(***************************************************************************)
(* Fonts handed to print_buffer and print: std::array<std::array<T,N>,M>,  *)
(* one glyph of N columns per printable character (M = 95), the space      *)
(* glyph blank.                                                            *)
(***************************************************************************)
FontTable(N, seed, width) ==
    [g \in 1..(TILDE - SPACE + 1) |->
        [k \in 1..N |-> IF g = 1 THEN 0 ELSE ((g * 37 + k * 29 + seed) * 9973) % width]]

Default == [name |-> "Default", N |-> 5, glyphs |-> FontTable(5, 11, 256)]

FontDefault == [name |-> "FontDefault", N |-> 6, glyphs |-> FontTable(6, 3, 256)]

FontLarge == [name |-> "FontLarge", N |-> 2, glyphs |-> FontTable(2, 4099, 65536)]

FontHuge == [name |-> "FontHuge", N |-> 2, glyphs |-> FontTable(2, 70001, 1073741824)]

FontMega == [name |-> "FontMega", N |-> 3, glyphs |-> FontTable(3, 90001, 1073741824)]

\* arrays_equal: same dimensions and equal elements.
arrays_equal(a, b) ==
    /\ Len(a.glyphs) = Len(b.glyphs)
    /\ a.N = b.N
    /\ a.glyphs = b.glyphs

get_shift_value(fontData) ==
    IF arrays_equal(fontData, FontMega) \/ arrays_equal(fontData, FontHuge) THEN 24
    ELSE IF arrays_equal(fontData, FontLarge) THEN 8
    ELSE 0

\* Mutant of GlyphIndex: an unsupported character takes the last glyph.
GlyphIndexLast(ch) == IF ch < SPACE \/ ch > TILDE THEN TILDE - SPACE ELSE ch - SPACE

\* "if (c < ' ' || c > '~') c = ' '", then the index c - ' '.
GlyphIndex(ch) == IF ch < SPACE \/ ch > TILDE THEN 0 ELSE ch - SPACE

(***************************************************************************)
(* The record of the last call: its operation and arguments.               *)
(***************************************************************************)
NoCall ==
    [op |-> "init", x |-> 0, y |-> 0, c |-> NoGlyph, rows |-> 0, bc |-> 0,
     nd |-> <<>>, cm |-> FALSE, str |-> <<>>, font |-> "", junk |-> 0,
     mode |-> FALSE, l |-> 0]

Init ==
    /\ buffer = ZeroBuffer
    /\ inverttext = FALSE
    /\ cursor_x = 0
    /\ cursor_y = 0
    /\ wire = NoBytes
    /\ overrun = FALSE
    /\ last = NoCall
    /\ calls = 0

\* A write past the end of buffer lands in the members that follow it in the
\* object (_cursor_x, _cursor_y, inverttext): inverttext may end with either
\* value.  The cursor members are reassigned by the setXY that follows.
AfterOverrun(over) ==
    IF over THEN inverttext' \in BOOLEAN ELSE inverttext' = inverttext

(***************************************************************************)
(* clear(): 504 times write(0x00, LCD_DATA) and buffer[i] = 0.             *)
(***************************************************************************)
\* Mutant of ClearBytes: the buffer is cleared in memory only.
ClearBytesNone == NoBytes

\* The bytes clear() sends: write(0x00, LCD_DATA) once per buffer byte.
ClearBytes == [bytes |-> ZeroBuffer, modes |-> AllData]

clear ==
    /\ calls < MaxCalls
    /\ calls' = calls + 1
    /\ buffer' = ZeroBuffer
    /\ wire' = ClearBytes
    /\ overrun' = FALSE
    /\ last' = [NoCall EXCEPT !.op = "clear"]
    /\ UNCHANGED <<inverttext, cursor_x, cursor_y>>

(***************************************************************************)
(* invert(mode).                                                           *)
(***************************************************************************)
invert(mode) ==
    /\ calls < MaxCalls
    /\ calls' = calls + 1
    /\ inverttext' = mode
    /\ wire' = NoBytes
    /\ overrun' = FALSE
    /\ last' = [NoCall EXCEPT !.op = "invert", !.mode = mode]
    /\ UNCHANGED <<buffer, cursor_x, cursor_y>>

(***************************************************************************)
(* refresh_screen().                                                       *)
(***************************************************************************)
refresh_screen ==
    /\ calls < MaxCalls
    /\ calls' = calls + 1
    /\ wire' = RefreshBytes(buffer)
    /\ cursor_x' = LCD_SETXADDR
    /\ cursor_y' = LCD_SETYADDR
    /\ overrun' = FALSE
    /\ last' = [NoCall EXCEPT !.op = "refresh_screen"]
    /\ UNCHANGED <<buffer, inverttext>>

(***************************************************************************)
(* put_char_xy(c, x, y).                                                   *)
(***************************************************************************)
PutCharResult(buf, inv, c, x, y, junk) ==
    LET shift_value   == y % 8
        affected_rows == find_affected_rows(y, c.char_height)
        bit_count     == count_bits(affected_rows)
        new_data      == shift_data(c.data, c.char_width, shift_value, bit_count, junk)
    IN  write_to_buffer(buf, x, affected_rows, new_data, c.char_width, bit_count,
                        inv, FALSE, junk)

put_char_xy(c, x, y, junk) ==
    LET r == PutCharResult(buffer, inverttext, c, x, y, junk)
    IN  /\ calls < MaxCalls
        /\ calls' = calls + 1
        /\ buffer' = r.buf
        /\ wire' = RefreshBytes(r.buf)
        /\ cursor_x' = LCD_SETXADDR
        /\ cursor_y' = LCD_SETYADDR
        /\ overrun' = r.over
        /\ AfterOverrun(r.over)
        /\ last' = [NoCall EXCEPT !.op = "put_char_xy", !.c = c, !.x = x, !.y = y,
                                  !.rows = find_affected_rows(y, c.char_height),
                                  !.bc = count_bits(find_affected_rows(y, c.char_height)),
                                  !.junk = junk]

(***************************************************************************)
(* print_buffer(str, x, y, fontData): per character the row span is taken  *)
(* from fontData[0].size() (= N), the glyph is shifted, merged with        *)
(* char_mode = false and the screen refreshed; x is a uint8_t.             *)
(***************************************************************************)
FontGlyph(fontData, ch) ==
    [char_width |-> fontData.N, char_height |-> fontData.N,
     data |-> fontData.glyphs[GlyphIndex(ch) + 1]]

RECURSIVE PrintBufferLoop(_, _, _, _, _, _, _, _)
PrintBufferLoop(st, str, k, x, y, fontData, inv, junk) ==
    IF k > Len(str)
    THEN st
    ELSE LET r == PutCharResult(st.buf, inv, FontGlyph(fontData, str[k]), x, y, junk)
         IN  PrintBufferLoop([buf  |-> r.buf,
                              over |-> st.over \/ r.over,
                              out  |-> Cat(st.out, RefreshBytes(r.buf)),
                              cx   |-> LCD_SETXADDR,
                              cy   |-> LCD_SETYADDR],
                             str, k + 1, (x + fontData.N) % 256, y, fontData, inv, junk)

print_buffer(str, x, y, fontData, junk) ==
    LET r == PrintBufferLoop([buf |-> buffer, over |-> FALSE, out |-> NoBytes,
                              cx |-> cursor_x, cy |-> cursor_y],
                             str, 1, x, y, fontData, inverttext, junk)
    IN  /\ calls < MaxCalls
        /\ calls' = calls + 1
        /\ buffer' = r.buf
        /\ wire' = r.out
        /\ cursor_x' = r.cx
        /\ cursor_y' = r.cy
        /\ overrun' = r.over
        /\ AfterOverrun(r.over)
        /\ last' = [NoCall EXCEPT !.op = "print_buffer", !.str = str, !.x = x, !.y = y,
                                  !.c = [NoGlyph EXCEPT !.char_width = fontData.N,
                                                        !.char_height = fontData.N],
                                  !.font = fontData.name, !.junk = junk,
                                  !.rows = find_affected_rows(y, fontData.N),
                                  !.bc = count_bits(find_affected_rows(y, fontData.N))]

(***************************************************************************)
(* print(str, x, y, fontData): sends straight to the device, one page-row *)
(* of the glyph per pass of "for (; shift >= 0; shift -= 8)".              *)
(***************************************************************************)
\* The N data bytes of one pass: (charData[i] >> shift) & 0xFF.
PrintRowData(charData, N, shift) ==
    [bytes |-> [i \in 1..N |-> (charData[i] \div (2 ^ shift)) % 256],
     modes |-> [i \in 1..N |-> LCD_DATA]]

RECURSIVE PrintRows(_, _, _, _, _)
PrintRows(charData, N, x, y, shift) ==
    IF shift < 0
    THEN NoBytes
    ELSE Cat(Cat(SetXYBytes(x, (y + (shift \div 8)) % 256),
                 PrintRowData(charData, N, shift)),
             PrintRows(charData, N, x, y, shift - 8))

RECURSIVE PrintLoop(_, _, _, _, _, _)
PrintLoop(st, str, k, x, y, fontData) ==
    IF k > Len(str)
    THEN st
    ELSE PrintLoop([out |-> Cat(st.out, PrintRows(fontData.glyphs[GlyphIndex(str[k]) + 1],
                                                  fontData.N, x, y, get_shift_value(fontData))),
                    cx  |-> x,
                    cy  |-> y % 256],
                   str, k + 1, (x + fontData.N) % 256, y, fontData)

print(str, x, y, fontData) ==
    LET r == PrintLoop([out |-> NoBytes, cx |-> cursor_x, cy |-> cursor_y],
                       str, 1, x, y, fontData)
    IN  /\ calls < MaxCalls
        /\ calls' = calls + 1
        /\ wire' = r.out
        /\ cursor_x' = r.cx
        /\ cursor_y' = r.cy
        /\ overrun' = FALSE
        /\ last' = [NoCall EXCEPT !.op = "print", !.str = str, !.x = x, !.y = y,
                                  !.font = fontData.name]
        /\ UNCHANGED <<buffer, inverttext>>

(***************************************************************************)
(* write_to_buffer called directly with caller-supplied rows and data.     *)
(***************************************************************************)
WriteToBuffer(x, affected_rows, new_data, char_width, bit_count, char_mode, junk) ==
    LET r == write_to_buffer(buffer, x, affected_rows, new_data, char_width, bit_count,
                             inverttext, char_mode, junk)
    IN  /\ calls < MaxCalls
        /\ calls' = calls + 1
        /\ buffer' = r.buf
        /\ wire' = NoBytes
        /\ overrun' = r.over
        /\ AfterOverrun(r.over)
        /\ last' = [NoCall EXCEPT !.op = "write_to_buffer", !.x = x, !.rows = affected_rows,
                                  !.nd = new_data, !.bc = bit_count, !.cm = char_mode,
                                  !.c = [NoGlyph EXCEPT !.char_width = char_width],
                                  !.junk = junk]
        /\ UNCHANGED <<cursor_x, cursor_y>>

(***************************************************************************)
(* set_pixel(x, y, value): x and y are uint8_t; the byte x + (y/8)*84 of   *)
(* the buffer is indexed without a test.  st is [buf, over] as in          *)
(* write_to_buffer.                                                        *)
(***************************************************************************)
PixelIndex(x, y) == x + (y \div 8) * LCD_WIDTH

SetPixel(st, x, y, value) ==
    IF PixelIndex(x, y) < LCD_SIZE
    THEN [buf  |-> [st.buf EXCEPT ![PixelIndex(x, y) + 1] =
                        IF value THEN BitOr(@, 2 ^ (y % 8))
                                 ELSE BitAnd(@, Not8(2 ^ (y % 8)))],
          over |-> st.over]
    ELSE [buf |-> st.buf, over |-> TRUE]

set_pixel(x, y, value) ==
    LET r == SetPixel([buf |-> buffer, over |-> FALSE], x, y, value)
    IN  /\ calls < MaxDraws
        /\ calls' = calls + 1
        /\ buffer' = r.buf
        /\ wire' = NoBytes
        /\ overrun' = r.over
        /\ AfterOverrun(r.over)
        /\ last' = [NoCall EXCEPT !.op = "set_pixel", !.x = x, !.y = y, !.mode = value]
        /\ UNCHANGED <<cursor_x, cursor_y>>

(***************************************************************************)
(* clear_area(x, y, width, height): set_pixel(x + j, y + i, false) for     *)
(* i < height, j < width; the sums are converted to uint8_t.               *)
(***************************************************************************)
RECURSIVE ClearAreaLoop(_, _, _, _, _, _)
ClearAreaLoop(st, x, y, width, height, n) ==
    IF n >= width * height
    THEN st
    ELSE ClearAreaLoop(SetPixel(st, (x + (n % width)) % 256, (y + (n \div width)) % 256, FALSE),
                       x, y, width, height, n + 1)

clear_area(x, y, width, height) ==
    LET r == ClearAreaLoop([buf |-> buffer, over |-> FALSE], x, y, width, height, 0)
    IN  /\ calls < MaxDraws
        /\ calls' = calls + 1
        /\ buffer' = r.buf
        /\ wire' = NoBytes
        /\ overrun' = r.over
        /\ AfterOverrun(r.over)
        /\ last' = [NoCall EXCEPT !.op = "clear_area", !.x = x, !.y = y,
                                  !.c = [NoGlyph EXCEPT !.char_width = width,
                                                        !.char_height = height]]
        /\ UNCHANGED <<cursor_x, cursor_y>>

(***************************************************************************)
(* draw_H_line(x, y, l): if the start is on the screen, for cx < l         *)
(* buffer[(y/8)*84 + x + cx] |= 1 << (y % 8).                              *)
(***************************************************************************)
RECURSIVE HLineLoop(_, _, _, _, _)
HLineLoop(st, x, y, l, cx) ==
    IF cx >= l
    THEN st
    ELSE HLineLoop(IF ((y \div 8) * 84) + x + cx < LCD_SIZE
                   THEN [buf  |-> [st.buf EXCEPT ![((y \div 8) * 84) + x + cx + 1] =
                                       BitOr(@, 2 ^ (y % 8))],
                         over |-> st.over]
                   ELSE [buf |-> st.buf, over |-> TRUE],
                   x, y, l, cx + 1)

draw_H_line(x, y, l) ==
    LET r == IF x >= 0 /\ x < LCD_WIDTH /\ y >= 0 /\ y < LCD_HEIGHT
             THEN HLineLoop([buf |-> buffer, over |-> FALSE], x, y, l, 0)
             ELSE [buf |-> buffer, over |-> FALSE]
    IN  /\ calls < MaxDraws
        /\ calls' = calls + 1
        /\ buffer' = r.buf
        /\ wire' = NoBytes
        /\ overrun' = r.over
        /\ AfterOverrun(r.over)
        /\ last' = [NoCall EXCEPT !.op = "draw_H_line", !.x = x, !.y = y, !.l = l]
        /\ UNCHANGED <<cursor_x, cursor_y>>

(***************************************************************************)
(* draw_V_line(x, y, l): if the start is on the screen, for cy <= l        *)
(* set_pixel(x, y + cy, true).                                             *)
(***************************************************************************)
RECURSIVE VLineLoop(_, _, _, _, _)
VLineLoop(st, x, y, l, cy) ==
    IF cy > l
    THEN st
    ELSE VLineLoop(SetPixel(st, x % 256, (y + cy) % 256, TRUE), x, y, l, cy + 1)

draw_V_line(x, y, l) ==
    LET r == IF x >= 0 /\ x < 84 /\ y >= 0 /\ y < 48
             THEN VLineLoop([buf |-> buffer, over |-> FALSE], x, y, l, 0)
             ELSE [buf |-> buffer, over |-> FALSE]
    IN  /\ calls < MaxDraws
        /\ calls' = calls + 1
        /\ buffer' = r.buf
        /\ wire' = NoBytes
        /\ overrun' = r.over
        /\ AfterOverrun(r.over)
        /\ last' = [NoCall EXCEPT !.op = "draw_V_line", !.x = x, !.y = y, !.l = l]
        /\ UNCHANGED <<cursor_x, cursor_y>>

(***************************************************************************)
(* The inputs of the model.                                                *)
(***************************************************************************)
JunkBytes == {0, 165}

\* The page-rows of data that shift_data reads.
RowsRead(y, char_height) ==
    LET bit_count == count_bits(find_affected_rows(y, char_height))
    IN  IF y % 8 = 0 THEN bit_count ELSE IF bit_count # 1 THEN bit_count - 1 ELSE 1

\* The bytes a read past the glyph may yield; 0 stands for "no such read".
JunkFor(c, y) ==
    IF c.char_width * RowsRead(y, c.char_height) > Len(c.data) THEN JunkBytes ELSE {0}

Glyphs == {Block8, Small3, Tall16}

Places == {<<10, 0>>, <<10, 4>>, <<82, 8>>}

Strings == {<<79>>, <<109, 7>>}

DirectWrites ==
    {[x |-> 10, rows |-> 1, nd |-> <<15, 240>>, w |-> 2, bc |-> 1],
     [x |-> 82, rows |-> 48, nd |-> <<60, 195, 24, 1, 128, 255>>, w |-> 3, bc |-> 2]}

Next ==
    \/ clear
    \/ \E mode \in BOOLEAN : invert(mode)
    \/ refresh_screen
    \/ \E c \in Glyphs, p \in Places : \E junk \in JunkFor(c, p[2]) :
          put_char_xy(c, p[1], p[2], junk)
    \/ \E str \in Strings : print_buffer(str, 20, 20, Default, 0)
    \/ print_buffer(<<79>>, 21, 6, FontDefault, 0)
    \/ print(<<79, 7>>, 0, 1, Default)
    \/ print(<<79>>, 79, 2, FontLarge)
    \/ \E d \in DirectWrites, cm \in BOOLEAN :
          WriteToBuffer(d.x, d.rows, d.nd, d.w, d.bc, cm, 0)

Spec == Init /\ [][Next]_vars

(***************************************************************************)
(* The row-span resolver on its own: one application per (y, char_height). *)
(***************************************************************************)
RowSpan(y, char_height) ==
    /\ last.op = "init"
    /\ last' = [NoCall EXCEPT !.op = "find_affected_rows", !.y = y,
                              !.c = [NoGlyph EXCEPT !.char_height = char_height],
                              !.rows = find_affected_rows(y, char_height),
                              !.bc = count_bits(find_affected_rows(y, char_height))]
    /\ UNCHANGED <<buffer, inverttext, cursor_x, cursor_y, wire, overrun, calls>>

NextRows == \E y \in 0..(LCD_HEIGHT - 1), h \in 1..LCD_HEIGHT : RowSpan(y, h)

SpecRows == Init /\ [][NextRows]_vars

(***************************************************************************)
(* One placement on a cleared screen, as in print_examples:                *)
(*     lcd.clear();  lcd.put_char_xy(c, x, y);                             *)
(* for every vertical position of the screen.                              *)
(***************************************************************************)
AllGlyphs == {Block8, Mixed8, Small3, Dot1, Tall12, Tall16}

Columns == {0, 10, 79}

NextPlace ==
    \/ last.op = "init" /\ clear
    \/ \E c \in AllGlyphs, x \in Columns, y \in 0..(LCD_HEIGHT - 1) :
          \E junk \in JunkFor(c, y) :
             last.op = "clear" /\ put_char_xy(c, x, y, junk)

SpecPlace == Init /\ [][NextPlace]_vars

(***************************************************************************)
(* The transport at pin level.  A pin event is [pin, level]; write(data,   *)
(* mode) drives DC, pulls CE low, send(data) shifts the byte out, and CE   *)
(* is raised again.  send: 8 times DIN = (data & 0x80), CLK low, CLK high, *)
(* data <<= 1.                                                             *)
(***************************************************************************)
Pin(pin, level) == [pin |-> pin, level |-> level]

\* Mutant of SendBit: the lowest bit is tested.
SendBitLow(data) == Bit(data, 0)

\* (data & 0x80) ? GPIO_PIN_SET : GPIO_PIN_RESET
SendBit(data) == Bit(data, 7)

RECURSIVE Send(_, _)
Send(data, i) ==
    IF i >= 8
    THEN <<>>
    ELSE <<Pin("DIN", SendBit(data)), Pin("CLK", 0), Pin("CLK", 1)>>
            \o Send(Shl8(data, 1), i + 1)

WritePins(data, mode) ==
    IF mode = LCD_COMMAND
    THEN <<Pin("DC", 0), Pin("CE", 0)>> \o Send(data, 0) \o <<Pin("CE", 1)>>
    ELSE IF mode = LCD_DATA
    THEN <<Pin("DC", 1), Pin("CE", 0)>> \o Send(data, 0) \o <<Pin("CE", 1)>>
    ELSE <<>>

\* The pin events recorded so far.
PinsOf(tx) == IF "pins" \in DOMAIN tx THEN tx.pins ELSE <<>>

\* write(data, mode), the bytes and pin events of successive calls kept.
write(data, mode) ==
    /\ calls < MaxCalls
    /\ calls' = calls + 1
    /\ wire' = [bytes |-> wire.bytes \o Write(data, mode).bytes,
                modes |-> wire.modes \o Write(data, mode).modes,
                pins  |-> PinsOf(wire) \o WritePins(data, mode)]
    /\ last' = [NoCall EXCEPT !.op = "write", !.x = data, !.y = mode]
    /\ UNCHANGED <<buffer, inverttext, cursor_x, cursor_y, overrun>>

WireBytes == {0, 1, 64, 128, 165, 255}

WireModes == {LCD_COMMAND, LCD_DATA, 2}

NextByte == \E data \in WireBytes, mode \in WireModes : write(data, mode)

SpecByte == Init /\ [][NextByte]_vars

(***************************************************************************)
(* The pixel and line operations, with starts and lengths on and off the   *)
(* screen.                                                                 *)
(***************************************************************************)
PixelColumns == {3, 83, 84}

PixelRows == {0, 9, 47, 48}

LineLengths == {0, 1, 3, 5}

Areas == {[x |-> 3, y |-> 6, w |-> 2, h |-> 4], [x |-> 80, y |-> 44, w |-> 6, h |-> 5]}

NextDraw ==
    \/ \E x \in PixelColumns, y \in PixelRows, value \in BOOLEAN : set_pixel(x, y, value)
    \/ \E a \in Areas : clear_area(a.x, a.y, a.w, a.h)
    \/ \E x \in {-1, 3, 80}, y \in {9, 48}, l \in LineLengths : draw_H_line(x, y, l)
    \/ \E x \in {3, 84}, y \in {0, 6, 45}, l \in LineLengths : draw_V_line(x, y, l)

SpecDraw == Init /\ [][NextDraw]_vars

(***************************************************************************)
(* The same placement twice in a row:                                      *)
(*     <some call that leaves a buffer state>                              *)
(*     lcd.put_char_xy(c, x, y);  lcd.put_char_xy(c, x, y);                *)
(* The second call reads the same glyph memory as the first.               *)
(***************************************************************************)
TwiceColumns == {0, 10, 79, 82}

TwiceRows == {0, 4, 8, 13, 40}

NextTwice ==
    \/ calls = 0 /\ clear
    \/ \E d \in DirectWrites, cm \in BOOLEAN :
          calls = 0 /\ WriteToBuffer(d.x, d.rows, d.nd, d.w, d.bc, cm, 0)
    \/ \E c \in AllGlyphs, x \in TwiceColumns, y \in TwiceRows :
          \E junk \in JunkFor(c, y) :
             calls = 1 /\ put_char_xy(c, x, y, junk)
    \/ /\ calls = 2
       /\ last.op = "put_char_xy"
       /\ put_char_xy(last.c, last.x, last.y, last.junk)

SpecTwice == Init /\ [][NextTwice]_vars

(***************************************************************************)
(* One text call on the screen as constructed: print_buffer with a font of *)
(* one-byte columns at every row that keeps the 8-row glyph on the screen, *)
(* or print, of a string of characters inside and outside ' ' .. '~'       *)
(* (a C string holds no character 0).                                      *)
(***************************************************************************)
Chars == {7, 31, 32, 79, 126, 127, 200}

TextStrings == {<<a>> : a \in Chars} \cup {<<a, b>> : a \in Chars, b \in {7, 79, 200}}

ByteFonts == {Default, FontDefault}

PrintFonts == {Default, FontLarge, FontHuge}

NextText ==
    \/ \E str \in TextStrings, y \in 0..(LCD_HEIGHT - 8), f \in ByteFonts :
          last.op = "init" /\ print_buffer(str, 20, y, f, 0)
    \/ \E str \in TextStrings, f \in PrintFonts :
          last.op = "init" /\ print(str, 0, 1, f)

SpecText == Init /\ [][NextText]_vars

(***************************************************************************)
(* Vocabulary of the properties.                                           *)
(***************************************************************************)
Ceil8(n) == (n + 7) \div 8

\* The glyph of call l lies inside columns 0..83 and rows 0..47.
InBounds(l) ==
    /\ l.x + l.c.char_width <= LCD_WIDTH
    /\ l.y + l.c.char_height <= LCD_HEIGHT

\* All target cells of placement l lie inside columns 0..83 and pages 0..5
\* (a font glyph is 8 rows high).
PlacementInside(l) ==
    IF l.op = "put_char_xy" THEN InBounds(l)
    ELSE IF l.op = "print_buffer"
    THEN l.x + Len(l.str) * l.c.char_width <= LCD_WIDTH /\ l.y + 8 <= LCD_HEIGHT
    ELSE l.x >= 0 /\ l.x + l.c.char_width <= LCD_WIDTH /\ l.rows < 2 ^ LCD_PAGES

\* Buffer byte of column col in page page.
Cell(buf, col, page) == buf[col + page * LCD_WIDTH + 1]

\* Byte of glyph column k in native page-row i.
GlyphByte(c, k, i) == c.data[k + i * c.char_width + 1]

\* The bytes end with the origin address commands and the whole of buf as data.
EndsWithFlush(tx, buf) ==
    LET n == Len(tx.bytes) - (LCD_SIZE + 2)
    IN  /\ n >= 0
        /\ Len(tx.modes) = Len(tx.bytes)
        /\ tx.bytes[n + 1] = 64 /\ tx.modes[n + 1] = LCD_COMMAND
        /\ tx.bytes[n + 2] = 128 /\ tx.modes[n + 2] = LCD_COMMAND
        /\ \A k \in 0..(LCD_SIZE - 1) :
              tx.bytes[n + 3 + k] = buf[k + 1] /\ tx.modes[n + 3 + k] = LCD_DATA

\* The pages of a row mask, and the new_data row a page is merged with: the
\* number of marked pages below it.
PagesOf(rows) == {p \in 0..7 : Bit(rows, p) = 1}

DataRowOf(rows, p) == Cardinality({q \in PagesOf(rows) : q < p})

\* C1: on an all-zero buffer with invert clear, put_char_xy of a glyph that
\* fits the screen sets, for every column k and glyph row r, bit (y+r) mod 8
\* of buffer byte (x+k) + ((y+r) div 8)*84 to bit r mod 8 of glyph byte
\* data[k + (r div 8)*w], for every sub-page offset y mod 8.
C1_GlyphPixelsPlaced ==
    [][(/\ buffer = ZeroBuffer
        /\ ~inverttext
        /\ last'.op = "put_char_xy"
        /\ InBounds(last'))
       => \A k \in 0..(last'.c.char_width - 1), r \in 0..(last'.c.char_height - 1) :
             Bit(Cell(buffer', last'.x + k, (last'.y + r) \div 8), (last'.y + r) % 8)
                = Bit(GlyphByte(last'.c, k, r \div 8), r % 8)]_vars

\* C2: for y in 0..47 and h in 1..48 with y + h <= 48, the number of set bits
\* of find_affected_rows(y, h) equals ceil((y mod 8 + h) / 8).
C2_TouchedPageCount ==
    (last.op = "find_affected_rows" /\ last.y + last.c.char_height <= LCD_HEIGHT)
        => last.bc = Ceil8((last.y % 8) + last.c.char_height)

\* C3: a placement whose target cells are not all inside columns 0..83 and
\* pages 0..5 leaves every buffer byte unmodified (and reports OutOfBounds;
\* the operations return void and have no such report).
C3_OutOfBoundsUnmodified ==
    [][(/\ last'.op \in {"put_char_xy", "print_buffer", "write_to_buffer"}
        /\ ~PlacementInside(last'))
       => buffer' = buffer]_vars

\* C4: put_char_xy of a glyph that fits the screen changes no buffer byte
\* outside columns x..x+w-1 of pages y div 8 .. (y+h-1) div 8.
C4_FrameOfPlacement ==
    [][(/\ last'.op = "put_char_xy"
        /\ InBounds(last'))
       => \A col \in 0..(LCD_WIDTH - 1), page \in 0..(LCD_PAGES - 1) :
             (\/ col < last'.x
              \/ col >= last'.x + last'.c.char_width
              \/ page < last'.y \div 8
              \/ page > (last'.y + last'.c.char_height - 1) \div 8)
             => Cell(buffer', col, page) = Cell(buffer, col, page)]_vars

\* C5: a glyph of height 8 placed at (x, y) with s = y mod 8 # 0 on an
\* all-zero buffer, invert clear, inside the screen: each cell of page y div 8
\* in columns x..x+w-1 becomes (d << s) mod 256 and each cell of the next page
\* becomes d >> (8 - s).
C5_StraddleSplit ==
    [][(/\ buffer = ZeroBuffer
        /\ ~inverttext
        /\ last'.op = "put_char_xy"
        /\ last'.c.char_height = 8
        /\ last'.y % 8 # 0
        /\ InBounds(last'))
       => \A k \in 0..(last'.c.char_width - 1) :
             /\ Cell(buffer', last'.x + k, last'.y \div 8)
                   = (GlyphByte(last'.c, k, 0) * (2 ^ (last'.y % 8))) % 256
             /\ Cell(buffer', last'.x + k, (last'.y \div 8) + 1)
                   = GlyphByte(last'.c, k, 0) \div (2 ^ (8 - (last'.y % 8)))]_vars

C5_Witness ==
    /\ last.op = "put_char_xy"
    /\ last.c = Block8 /\ last.x = 10 /\ last.y = 4
    /\ \A k \in 0..4 : Cell(buffer, 10 + k, 0) = 240 /\ Cell(buffer, 10 + k, 1) = 15

\* C6: after clear(), invert clear, put_char_xy at (x, y) with y mod 8 = 0
\* inside the screen leaves buffer[(x+k) + (y/8 + i)*84] equal to the glyph
\* byte data[k + i*w], for every glyph column k and native page-row i.
C6_RoundTripAtShiftZero ==
    [][(/\ last.op = "clear"
        /\ ~inverttext
        /\ last'.op = "put_char_xy"
        /\ last'.y % 8 = 0
        /\ InBounds(last'))
       => \A k \in 0..(last'.c.char_width - 1),
             i \in 0..(Ceil8(last'.c.char_height) - 1) :
             Cell(buffer', last'.x + k, (last'.y \div 8) + i) = GlyphByte(last'.c, k, i)]_vars

C6_Witness ==
    /\ last.op = "put_char_xy"
    /\ last.c = Tall16 /\ last.x = 79 /\ last.y = 8
    /\ Cell(buffer, 79, 1) = 165 /\ Cell(buffer, 80, 1) = 15
    /\ Cell(buffer, 79, 2) = 60 /\ Cell(buffer, 80, 2) = 129

\* C7: write_to_buffer with the invert flag set and char_mode = true leaves
\* every touched cell with the value old | ~d, d being the byte merged into it.
C7_ComplementOr ==
    [][(/\ inverttext
        /\ last'.op = "write_to_buffer"
        /\ last'.cm)
       => \A p \in PagesOf(last'.rows), j \in 0..(last'.c.char_width - 1) :
             (last'.x + j + p * LCD_WIDTH < LCD_SIZE)
             => Cell(buffer', last'.x + j, p)
                   = BitOr(Cell(buffer, last'.x + j, p),
                           Not8(last'.nd[j + DataRowOf(last'.rows, p) * last'.c.char_width + 1]))]_vars

\* C8: with the invert flag set and char_mode = false every touched cell ends
\* with old & ~d; a put_char_xy or print_buffer under invert(true) sets no
\* buffer bit.
C8_ComplementAnd ==
    [][/\ (/\ inverttext
           /\ last'.op = "write_to_buffer"
           /\ ~last'.cm)
          => \A p \in PagesOf(last'.rows), j \in 0..(last'.c.char_width - 1) :
                (last'.x + j + p * LCD_WIDTH < LCD_SIZE)
                => Cell(buffer', last'.x + j, p)
                      = BitAnd(Cell(buffer, last'.x + j, p),
                               Not8(last'.nd[j + DataRowOf(last'.rows, p) * last'.c.char_width + 1]))
       /\ (/\ inverttext
           /\ last'.op \in {"put_char_xy", "print_buffer"})
          => \A n \in 1..LCD_SIZE : BitAnd(buffer'[n], Not8(buffer[n])) = 0]_vars

C8_Witness ==
    /\ last.op = "write_to_buffer" /\ ~last.cm /\ inverttext
    /\ last.x = 10 /\ last.rows = 1 /\ last.nd = <<15, 240>>
    /\ Cell(buffer, 10, 0) = 240 /\ Cell(buffer, 11, 0) = 15

\* C9: refresh_screen sends the commands 0x40 and 0x80, then exactly the 504
\* buffer bytes buffer[0..503] in this order as data, nothing else, and does
\* not modify the buffer.
C9_FlushOrder ==
    [][(last'.op = "refresh_screen")
       => /\ buffer' = buffer
          /\ Len(wire'.bytes) = LCD_SIZE + 2
          /\ EndsWithFlush(wire', buffer)]_vars

C9_Witness ==
    /\ last.op = "refresh_screen"
    /\ buffer # ZeroBuffer
    /\ Len(wire.bytes) = LCD_SIZE + 2
    /\ wire.bytes[13] = buffer[11]

\* C10 as stated: print, print_buffer (of a non-empty string) and put_char_xy
\* all end with a full-buffer flush.
C10_EveryPrimitiveFlushes ==
    (last.op \in {"print", "print_buffer", "put_char_xy"}
     /\ (last.op = "put_char_xy" \/ last.str # <<>>))
        => EndsWithFlush(wire, buffer)

\* C10 amended: print_buffer (of a non-empty string) and put_char_xy end with
\* a full-buffer flush; print leaves the buffer alone and sends no flush.
C10_BufferedPrimitivesFlush ==
    [][/\ (last'.op = "put_char_xy" \/ (last'.op = "print_buffer" /\ last'.str # <<>>))
          => EndsWithFlush(wire', buffer')
       /\ (last'.op = "print" /\ last'.str # <<>>)
          => (buffer' = buffer /\ ~EndsWithFlush(wire', buffer'))]_vars

C10_Witness ==
    /\ last.op = "print_buffer"
    /\ Len(last.str) = 2
    /\ Len(wire.bytes) = 2 * (LCD_SIZE + 2)
    /\ buffer # ZeroBuffer

FontOf(l) == CHOOSE f \in {Default, FontDefault, FontLarge, FontHuge, FontMega} : f.name = l.font

\* The string with every character outside ' ' .. '~' replaced by ' '.
WithSpaces(str) ==
    [k \in 1..Len(str) |-> IF str[k] >= SPACE /\ str[k] <= TILDE THEN str[k] ELSE SPACE]

\* C12: print_buffer and print render every character outside 0x20..0x7E
\* with the space glyph: the buffer and the bytes sent are those of the string
\* with such characters replaced by spaces, and every glyph index used is in
\* 0..94.
C12_UnsupportedAsSpace ==
    [][/\ (last'.op = "print_buffer")
          => LET r == PrintBufferLoop([buf |-> buffer, over |-> FALSE, out |-> NoBytes,
                                       cx |-> cursor_x, cy |-> cursor_y],
                                      WithSpaces(last'.str), 1, last'.x, last'.y,
                                      FontOf(last'), inverttext, last'.junk)
             IN  buffer' = r.buf /\ wire' = r.out
       /\ (last'.op = "print")
          => wire' = PrintLoop([out |-> NoBytes, cx |-> cursor_x, cy |-> cursor_y],
                               WithSpaces(last'.str), 1, last'.x, last'.y, FontOf(last')).out
       /\ (last'.op \in {"print_buffer", "print"})
          => \A k \in 1..Len(last'.str) :
                GlyphIndex(last'.str[k]) \in 0..(TILDE - SPACE)]_vars

\* "O" then character 200 at (20, 8): the cells of the second character stay
\* blank, those of the first hold the glyph of 'O'.
C12_Witness ==
    /\ last.op = "print_buffer" /\ last.font = "Default"
    /\ last.str = <<79, 200>> /\ last.y = 8
    /\ \A k \in 0..4 : Cell(buffer, 25 + k, 1) = 0
    /\ Cell(buffer, 20, 1) = Default.glyphs[79 - SPACE + 1][1]
    /\ Cell(buffer, 20, 1) # 0

\* C13: with the invert flag clear, a second put_char_xy of the same glyph at
\* the same (x, y), right after the first and with no write past the end of
\* the buffer, leaves the buffer as the first call left it, whatever the
\* buffer held before the first call.
C13_PlacementIdempotent ==
    [][(/\ last.op = "put_char_xy"
        /\ last'.op = "put_char_xy"
        /\ last'.c = last.c /\ last'.x = last.x /\ last'.y = last.y
        /\ last'.junk = last.junk
        /\ ~inverttext
        /\ ~overrun)
       => buffer' = buffer]_vars

\* The 5x8 block twice at (10, 4) over the bytes 0x0F, 0xF0 written before at
\* columns 10, 11 of page 0.
C13_Witness ==
    /\ calls = 3
    /\ last.op = "put_char_xy" /\ last.c = Block8 /\ last.x = 10 /\ last.y = 4
    /\ ~inverttext
    /\ Cell(buffer, 10, 0) = 255 /\ Cell(buffer, 11, 0) = 240 /\ Cell(buffer, 12, 0) = 240
    /\ Cell(buffer, 10, 1) = 15

\* The rows of page `page` that the l pixels (x, y) .. (x, y + l - 1) cover.
LineMask(y, l, page) == MaskOf({r \in 0..7 : 8 * page + r >= y /\ 8 * page + r < y + l})

\* C14: draw_V_line(x, y, l) with the start on the screen (and the l pixels
\* on it) sets exactly the l pixels (x, y) .. (x, y + l - 1), as many as
\* draw_H_line sets, and changes no other pixel; with the start off the screen
\* it changes nothing.
C14_VLineSetsLPixels ==
    [][(last'.op = "draw_V_line")
       => IF last'.x >= 0 /\ last'.x < LCD_WIDTH /\ last'.y >= 0 /\ last'.y < LCD_HEIGHT
          THEN (last'.l >= 0 /\ last'.y + last'.l <= LCD_HEIGHT)
               => \A col \in 0..(LCD_WIDTH - 1), page \in 0..(LCD_PAGES - 1) :
                     Cell(buffer', col, page)
                        = IF col = last'.x
                          THEN BitOr(Cell(buffer, col, page), LineMask(last'.y, last'.l, page))
                          ELSE Cell(buffer, col, page)
          ELSE buffer' = buffer]_vars

\* C16: no operation writes past the end of the buffer, and every buffer byte
\* an operation called at column x changes lies in a column >= x of a page of
\* the screen, never in a column of another page reached by running over
\* column 83.
C16_WritesStayInPage ==
    [][(last'.op \in {"set_pixel", "clear_area", "draw_H_line", "draw_V_line",
                      "put_char_xy", "print_buffer", "write_to_buffer"})
       => /\ ~overrun'
          /\ \A col \in 0..(LCD_WIDTH - 1), page \in 0..(LCD_PAGES - 1) :
                Cell(buffer', col, page) # Cell(buffer, col, page) => col >= last'.x]_vars

\* C15: each write(data, mode) with mode command or data drives, in this
\* order: DC low for a command or high for data, CE low, then for each of the
\* 8 bits from the most significant down DIN = the bit, CLK low, CLK high, and
\* last CE high; so there are 8 clock pulses per byte and CE is high between
\* any two bytes.
C15_WriteWaveform ==
    [][(last'.op = "write" /\ last'.y \in {LCD_COMMAND, LCD_DATA})
       => LET before == Len(PinsOf(wire))
              ev(n)  == wire'.pins[before + n]
          IN  /\ Len(wire'.pins) = before + 27
              /\ ev(1) = Pin("DC", IF last'.y = LCD_COMMAND THEN 0 ELSE 1)
              /\ ev(2) = Pin("CE", 0)
              /\ \A i \in 0..7 :
                    /\ ev(3 + 3 * i) = Pin("DIN", (last'.x \div (2 ^ (7 - i))) % 2)
                    /\ ev(4 + 3 * i) = Pin("CLK", 0)
                    /\ ev(5 + 3 * i) = Pin("CLK", 1)
              /\ ev(27) = Pin("CE", 1)
              /\ Len(wire'.bytes) = Len(wire.bytes) + 1
              /\ Cardinality({n \in 1..Len(wire'.pins) : wire'.pins[n] = Pin("CLK", 1)})
                    = 8 * Len(wire'.bytes)
              /\ \A n \in 2..Len(wire'.pins) :
                    wire'.pins[n].pin = "DC" => wire'.pins[n - 1] = Pin("CE", 1)]_vars

\* The data byte 0xA5 followed by the command byte 0x40.
C15_Witness ==
    /\ last.op = "write"
    /\ wire.bytes = <<165, 64>> /\ wire.modes = <<LCD_DATA, LCD_COMMAND>>
    /\ Len(wire.pins) = 54
    /\ wire.pins[1] = Pin("DC", 1) /\ wire.pins[3] = Pin("DIN", 1)
    /\ wire.pins[6] = Pin("DIN", 0) /\ wire.pins[27] = Pin("CE", 1)
    /\ wire.pins[28] = Pin("DC", 0) /\ wire.pins[30] = Pin("DIN", 0)
    /\ wire.pins[33] = Pin("DIN", 1)

\* C17: for y in 0..47 and h >= 1 with y + h <= 48, find_affected_rows(y, h)
\* is a contiguous run of set bits within bits 0..5 whose lowest set bit is
\* page y div 8 and which contains page (y + h - 1) div 8; in particular no
\* page above 5 is marked for a glyph ending on the last row.
C17_ContiguousRowMask ==
    (last.op = "find_affected_rows" /\ last.y + last.c.char_height <= LCD_HEIGHT)
        => LET P == PagesOf(last.rows)
           IN  /\ P \subseteq 0..(LCD_PAGES - 1)
               /\ last.rows < 2 ^ LCD_PAGES
               /\ (last.y \div 8) \in P
               /\ \A p \in P : p >= last.y \div 8
               /\ ((last.y + last.c.char_height - 1) \div 8) \in P
               /\ \A p \in P, q \in P : \A m \in p..q : m \in P

\* y = 47, h = 1: only page 5.
C17_Witness ==
    /\ last.op = "find_affected_rows"
    /\ last.y = 47 /\ last.c.char_height = 1
    /\ last.rows = 32

\* Source byte of glyph column k in page-row j; a page-row the glyph does not
\* have is blank.
SourceByte(c, k, j) == IF j < Ceil8(c.char_height) THEN GlyphByte(c, k, j) ELSE 0

\* C18: with shift s = y mod 8 in 1..7 and more than one page-row, on a zero
\* output, every destination page-row j from the last down to 1 holds, in
\* every column, ((source[j] << s) mod 256) | (source[j-1] >> (8 - s)): no
\* source page-row, the last included, is dropped.  Read from the cleared
\* buffer, where destination page-row j is page y div 8 + j.
C18_ShiftKeepsEveryRow ==
    [][(/\ buffer = ZeroBuffer
        /\ ~inverttext
        /\ last'.op = "put_char_xy"
        /\ InBounds(last')
        /\ last'.y % 8 # 0
        /\ last'.bc > 1)
       => \A k \in 0..(last'.c.char_width - 1), j \in 1..(last'.bc - 1) :
             Cell(buffer', last'.x + k, (last'.y \div 8) + j)
                = BitOr(Shl8(SourceByte(last'.c, k, j), last'.y % 8),
                        Shr8(SourceByte(last'.c, k, j - 1), 8 - (last'.y % 8)))]_vars

\* No cell other than columns x .. x+w-1 of the pages in P is set.
OnlyPages(buf, l, P) ==
    \A col \in 0..(LCD_WIDTH - 1), page \in 0..(LCD_PAGES - 1) :
        (col < l.x \/ col >= l.x + l.c.char_width \/ page \notin P)
        => Cell(buf, col, page) = 0

\* C19 as stated: a glyph of one native page-row (height <= 8) placed with
\* y mod 8 # 0 on a cleared buffer gives one byte per column, source >> shift,
\* in the single page y div 8, and nothing is carried into the next page.
C19_OneRowGlyphSinglePage ==
    [][(/\ buffer = ZeroBuffer
        /\ ~inverttext
        /\ last'.op = "put_char_xy"
        /\ InBounds(last')
        /\ last'.c.char_height <= 8
        /\ last'.y % 8 # 0)
       => /\ \A k \in 0..(last'.c.char_width - 1) :
                Cell(buffer', last'.x + k, last'.y \div 8)
                   = Shr8(GlyphByte(last'.c, k, 0), last'.y % 8)
          /\ OnlyPages(buffer', last', {last'.y \div 8})]_vars

\* C19 amended: the byte is source >> shift in a single page when the
\* placement touches one page (bit_count = 1, i.e. y mod 8 + h < 8, or
\* y mod 8 + h = 8 on the last page); a glyph of one native page-row that
\* touches two pages is split into (source << shift) mod 256 and
\* source >> (8 - shift).
C19_OnePageSpanDropsCarry ==
    [][(/\ buffer = ZeroBuffer
        /\ ~inverttext
        /\ last'.op = "put_char_xy"
        /\ InBounds(last')
        /\ last'.c.char_height <= 8
        /\ last'.y % 8 # 0)
       => /\ last'.bc = 1 <=> \/ (last'.y % 8) + last'.c.char_height < 8
                              \/ /\ (last'.y % 8) + last'.c.char_height = 8
                                 /\ last'.y + last'.c.char_height = LCD_HEIGHT
          /\ last'.bc \in {1, 2}
          /\ (last'.bc = 1)
             => /\ \A k \in 0..(last'.c.char_width - 1) :
                      Cell(buffer', last'.x + k, last'.y \div 8)
                         = Shr8(GlyphByte(last'.c, k, 0), last'.y % 8)
                /\ OnlyPages(buffer', last', {last'.y \div 8})
          /\ (last'.bc = 2)
             => /\ \A k \in 0..(last'.c.char_width - 1) :
                      /\ Cell(buffer', last'.x + k, last'.y \div 8)
                            = Shl8(GlyphByte(last'.c, k, 0), last'.y % 8)
                      /\ Cell(buffer', last'.x + k, (last'.y \div 8) + 1)
                            = Shr8(GlyphByte(last'.c, k, 0), 8 - (last'.y % 8))
                /\ OnlyPages(buffer', last', {last'.y \div 8, (last'.y \div 8) + 1})]_vars

\* The 2x3 glyph {0x05, 0x07} at (10, 1): 0x02, 0x03 in page 0, page 1 blank.
C19_Witness ==
    /\ last.op = "put_char_xy" /\ last.c = Small3 /\ last.x = 10 /\ last.y = 1
    /\ last.bc = 1
    /\ Cell(buffer, 10, 0) = 2 /\ Cell(buffer, 11, 0) = 3
    /\ Cell(buffer, 10, 1) = 0 /\ Cell(buffer, 11, 1) = 0

\* C20: print_buffer with a font of N one-byte columns per glyph, on an
\* all-zero buffer with invert clear and every cell on the screen, places the
\* 8 rows of each glyph: bit r of column byte k of the i-th character is the
\* pixel (x + i*N + k, y + r), for every y.
C20_TextRowsFromGlyphHeight ==
    [][(/\ buffer = ZeroBuffer
        /\ ~inverttext
        /\ last'.op = "print_buffer"
        /\ PlacementInside(last'))
       => \A i \in 0..(Len(last'.str) - 1), k \in 0..(last'.c.char_width - 1), r \in 0..7 :
             Bit(Cell(buffer', last'.x + i * last'.c.char_width + k, (last'.y + r) \div 8),
                 (last'.y + r) % 8)
                = Bit(FontOf(last').glyphs[WithSpaces(last'.str)[i + 1] - SPACE + 1][k + 1], r)]_vars

====
